---- MODULE Spec2Model ----
(***************************************************************************)
(* A model of src/pages/Discover.tsx: the service-listing query (useQuery   *)
(* queryFn), the view state (selectedCategory, selectedCity) and the        *)
(* booking request path (handleBookService, then the createBooking          *)
(* mutation with its onSuccess / onError callbacks), run against a remote   *)
(* store holding the services, profiles and bookings tables.                *)
(*                                                                          *)
(* Text values that the code compares (category, city) are sequences of     *)
(* one-character strings, so that ilike and eq are computed, not assumed.   *)
(***************************************************************************)
EXTENDS Integers, Sequences, FiniteSets, TLC

VARIABLES
    user,              \* page -> the value useUser() gives that page (NoUser when logged out)
    bookings,          \* the store's bookings table, in insertion order
    calls,             \* every handleBookService invocation so far, in call order
    isLoading,         \* page -> createBooking.isLoading
    currentMutation,   \* page -> the call whose mutation createBooking observes (0: none)
    invalidated,       \* the queryClient.invalidateQueries calls made so far, in order
    servicesTable,     \* the store's services table
    profilesTable,     \* the store's profiles table
    selectedCategory,  \* useState: the chosen category, or Null
    selectedCity,      \* useState: the chosen city, or Null
    query,             \* the run of queryFn for the current query key
    services,          \* useQuery data: the listing shown (empty while undefined)
    servicesLoading    \* useQuery isLoading

vars == <<user, bookings, calls, isLoading, currentMutation, invalidated, servicesTable,
          profilesTable, selectedCategory, selectedCity, query, services,
          servicesLoading>>

bookingVars == <<user, bookings, calls, isLoading, currentMutation, invalidated>>
storeListVars == <<servicesTable, profilesTable>>
listVars == <<selectedCategory, selectedCity, query, services, servicesLoading>>

-----------------------------------------------------------------------------
(* Bounds of the model.                                                     *)

MaxCalls == 2
MaxServices == 2       \* rows of the services table

-----------------------------------------------------------------------------
(* Values.                                                                  *)

NoUser == "null"                 \* useUser() data when nobody is logged in
Null == <<"null">>               \* useState(null) for a text value
Undefined == [undefined |-> TRUE]  \* Array.prototype.find found nothing

Pages == {1, 2}                  \* mounted instances of the Discover page
ProfileIds == {"u1", "u2"}       \* ids of the profiles table (customers and providers)
ServiceIds == {1}                \* service ids a booking request may name

\* const categories (name fields) and const cities
Haircuts == <<"H","a","i","r","c","u","t","s">>
HomeRepairs == <<"H","o","m","e"," ","R","e","p","a","i","r","s">>
Cleaning == <<"C","l","e","a","n","i","n","g">>
Gardening == <<"G","a","r","d","e","n","i","n","g">>
PersonalTraining ==
    <<"P","e","r","s","o","n","a","l"," ","T","r","a","i","n","i","n","g">>
PetCare == <<"P","e","t"," ","C","a","r","e">>
categories == {Haircuts, HomeRepairs, Cleaning, Gardening, PersonalTraining, PetCare}

Mumbai == <<"M","u","m","b","a","i">>
Pune == <<"P","u","n","e">>
Bangalore == <<"B","a","n","g","a","l","o","r","e">>
cities == {Mumbai, Pune, Bangalore}

-----------------------------------------------------------------------------
(* Text comparison as the store computes it.                                *)

UpperCase == <<"A","B","C","D","E","F","G","H","I","J","K","L","M",
               "N","O","P","Q","R","S","T","U","V","W","X","Y","Z">>
LowerCase == <<"a","b","c","d","e","f","g","h","i","j","k","l","m",
               "n","o","p","q","r","s","t","u","v","w","x","y","z">>

ToLower(ch) ==
    IF \E i \in DOMAIN UpperCase : UpperCase[i] = ch
    THEN LowerCase[CHOOSE i \in DOMAIN UpperCase : UpperCase[i] = ch]
    ELSE ch

Lower(s) == [i \in DOMAIN s |-> ToLower(s[i])]

\* SQL LIKE: % matches any run of characters, _ any one character, and a
\* backslash takes the next pattern character literally.
RECURSIVE Like(_, _)
Like(value, pattern) ==
    IF pattern = <<>> THEN value = <<>>
    ELSE IF Head(pattern) = "%"
         THEN Like(value, Tail(pattern))
              \/ (value # <<>> /\ Like(Tail(value), pattern))
    ELSE IF Head(pattern) = "\\" /\ Len(pattern) > 1
         THEN /\ value # <<>>
              /\ Head(value) = pattern[2]
              /\ Like(Tail(value), Tail(Tail(pattern)))
    ELSE /\ value # <<>>
         /\ (Head(pattern) = "_" \/ Head(value) = Head(pattern))
         /\ Like(Tail(value), Tail(pattern))

\* .ilike(column, pattern): LIKE without regard to case
ilike(value, pattern) == Like(Lower(value), Lower(pattern))

\* .eq(column, value)
eq(value, wanted) == value = wanted

-----------------------------------------------------------------------------
(* The listing query, queryFn.                                              *)

\* The row filter the query builder has accumulated before it is awaited.
ServiceMatches(row, category, city) ==
    /\ eq(row.is_active, TRUE)
    /\ (category # Null => ilike(row.category, category))
    /\ (city # Null => eq(row.city, city))

\* The columns named in .select(...)
SelectedColumns(row) ==
    [id |-> row.id, category |-> row.category, city |-> row.city,
     provider_id |-> row.provider_id]

RECURSIVE MapColumns(_)
MapColumns(rows) ==
    IF rows = <<>> THEN <<>>
    ELSE <<SelectedColumns(Head(rows))>> \o MapColumns(Tail(rows))

\* servicesData of a successful services fetch, in table order
fetchServices(category, city) ==
    MapColumns(SelectSeq(servicesTable,
                         LAMBDA row : ServiceMatches(row, category, city)))

\* servicesData.map(service => service.provider_id)
providerIdsOf(servicesData) ==
    {servicesData[i].provider_id : i \in DOMAIN servicesData}

\* providersData of a successful profiles fetch: .in('id', providerIds)
fetchProviders(providerIds) ==
    SelectSeq(profilesTable, LAMBDA p : p.id \in providerIds)

\* providersData?.find(p => p.id === service.provider_id)
find(providersData, providerId) ==
    IF \E i \in DOMAIN providersData : providersData[i].id = providerId
    THEN providersData[CHOOSE i \in DOMAIN providersData :
                           /\ providersData[i].id = providerId
                           /\ \A j \in 1..(i - 1) : providersData[j].id # providerId]
    ELSE Undefined

\* servicesData.map(service => ({...service, provider: ...}))
servicesWithProviders(servicesData, providersData) ==
    [i \in DOMAIN servicesData |->
        [id |-> servicesData[i].id,
         category |-> servicesData[i].category,
         city |-> servicesData[i].city,
         provider_id |-> servicesData[i].provider_id,
         provider |-> find(providersData, servicesData[i].provider_id)]]

\* queryFn has just been started for the key [services, category, city]
StartQuery(category, city) ==
    [pc |-> "fetchServices", category |-> category, city |-> city,
     servicesData |-> <<>>, failed |-> "none", providersFetches |-> 0]

\* queryFn returns rows: useQuery publishes them as data
Return(rows, failed) ==
    /\ query' = [query EXCEPT !.pc = "done", !.failed = failed]
    /\ services' = rows
    /\ servicesLoading' = FALSE

\* the services fetch resolves and the profiles are fetched whatever it returned
FetchServicesOk_AlwaysFetchesProviders ==
    /\ query.pc = "fetchServices"
    /\ query' = [query EXCEPT !.pc = "fetchProviders",
                              !.servicesData = fetchServices(query.category, query.city),
                              !.providersFetches = @ + 1]
    /\ UNCHANGED <<services, servicesLoading>>
    /\ UNCHANGED <<selectedCategory, selectedCity, storeListVars, bookingVars>>

\* await query resolves without error (lines 57-88)
FetchServicesOk ==
    /\ query.pc = "fetchServices"
    /\ LET servicesData == fetchServices(query.category, query.city) IN
         IF Len(servicesData) > 0
         THEN /\ query' = [query EXCEPT !.pc = "fetchProviders",
                                        !.servicesData = servicesData,
                                        !.providersFetches = @ + 1]
              /\ UNCHANGED <<services, servicesLoading>>
         ELSE Return(<<>>, "none")
    /\ UNCHANGED <<selectedCategory, selectedCity, storeListVars, bookingVars>>

\* the services fetch fails: throw servicesError, caught at line 89
FetchServicesFail ==
    /\ query.pc = "fetchServices"
    /\ Return(<<>>, "services")
    /\ UNCHANGED <<selectedCategory, selectedCity, storeListVars, bookingVars>>

\* the profiles fetch resolves without error (lines 68-85)
FetchProvidersOk ==
    /\ query.pc = "fetchProviders"
    /\ LET providersData == fetchProviders(providerIdsOf(query.servicesData)) IN
         Return(servicesWithProviders(query.servicesData, providersData), "none")
    /\ UNCHANGED <<selectedCategory, selectedCity, storeListVars, bookingVars>>

\* the profiles fetch fails: throw providersError, caught at line 89
FetchProvidersFail ==
    /\ query.pc = "fetchProviders"
    /\ Return(<<>>, "providers")
    /\ UNCHANGED <<selectedCategory, selectedCity, storeListVars, bookingVars>>

-----------------------------------------------------------------------------
(* The view state.  A change of the query key starts queryFn for the new   *)
(* key; until it returns, data is undefined and isLoading is true.          *)

Rekey(category, city) ==
    /\ selectedCategory' = category
    /\ selectedCity' = city
    /\ query' = StartQuery(category, city)
    /\ services' = <<>>
    /\ servicesLoading' = TRUE

\* handleCategoryClick without line 137
handleCategoryClick_KeepsCity(categoryName) ==
    /\ selectedCategory = Null
    /\ Rekey(categoryName, selectedCity)
    /\ UNCHANGED <<storeListVars, bookingVars>>

\* a category card is clicked; the grid is rendered only with no category chosen
handleCategoryClick(categoryName) ==
    /\ selectedCategory = Null
    /\ Rekey(categoryName, Null)
    /\ UNCHANGED <<storeListVars, bookingVars>>

\* the city Select: onValueChange={setSelectedCity}
setSelectedCity(city) ==
    /\ city # selectedCity
    /\ Rekey(selectedCategory, city)
    /\ UNCHANGED <<storeListVars, bookingVars>>

\* Back to Categories: setSelectedCategory(null)
BackToCategories ==
    /\ selectedCategory # Null
    /\ Rekey(Null, selectedCity)
    /\ UNCHANGED <<storeListVars, bookingVars>>

-----------------------------------------------------------------------------
(* The bookings table as the store answers about it.                        *)

ActiveStatuses == {"pending", "accepted"}   \* .in('status', [...]), line 166

\* the rows without the filter on status
existingBookings_AnyStatus(serviceId, customerId) ==
    SelectSeq(bookings, LAMBDA b : /\ eq(b.service_id, serviceId)
                                   /\ eq(b.customer_id, customerId))

\* rows of .eq('service_id', ..).eq('customer_id', ..).in('status', ..)
existingBookings(serviceId, customerId) ==
    SelectSeq(bookings, LAMBDA b : /\ eq(b.service_id, serviceId)
                                   /\ eq(b.customer_id, customerId)
                                   /\ b.status \in ActiveStatuses)

QueryKeys == <<"user-bookings", "customer-bookings">>   \* lines 117-118

-----------------------------------------------------------------------------
(* handleBookService and the createBooking mutation.                        *)
(* A call's pc: "checking" awaits the existing-bookings fetch, "inserting"  *)
(* awaits the insert, "success" / "error" is mutationFn settled with its    *)
(* callback still to run, "done" is nothing left to run.  fetch and insert  *)
(* record what the call asked of the store and how the store answered.      *)

NewCall(p, via, serviceId, providerId, pc, outcome, fetch) ==
    [page |-> p, via |-> via, serviceId |-> serviceId, providerId |-> providerId,
     customerId |-> user[p], pc |-> pc, outcome |-> outcome, fetch |-> fetch,
     insert |-> "none"]

\* handleBookService without the check of lines 150-157
handleBookService_NoSelfCheck(p, serviceId, providerId, via) ==
    /\ Len(calls) < MaxCalls
    /\ calls' = Append(calls,
         IF user[p] = NoUser
         THEN NewCall(p, via, serviceId, providerId, "done", "Unauthenticated", "none")
         ELSE NewCall(p, via, serviceId, providerId, "checking", "none", "issued"))
    /\ UNCHANGED <<user, bookings, isLoading, currentMutation, invalidated>>

\* handleBookService without the check of lines 141-148
handleBookService_NoUserCheck(p, serviceId, providerId, via) ==
    /\ Len(calls) < MaxCalls
    /\ calls' = Append(calls,
         IF user[p] = providerId
         THEN NewCall(p, via, serviceId, providerId, "done", "SelfBooking", "none")
         ELSE NewCall(p, via, serviceId, providerId, "checking", "none", "issued"))
    /\ UNCHANGED <<user, bookings, isLoading, currentMutation, invalidated>>

\* lines 140-166: the two early returns, else the fetch is issued
handleBookService(p, serviceId, providerId, via) ==
    /\ Len(calls) < MaxCalls
    /\ calls' = Append(calls,
         IF user[p] = NoUser
         THEN NewCall(p, via, serviceId, providerId, "done", "Unauthenticated", "none")
         ELSE IF user[p] = providerId
         THEN NewCall(p, via, serviceId, providerId, "done", "SelfBooking", "none")
         ELSE NewCall(p, via, serviceId, providerId, "checking", "none", "issued"))
    /\ UNCHANGED <<user, bookings, isLoading, currentMutation, invalidated>>

\* both invalidateQueries calls of a callback run for call c
Invalidate(c) ==
    invalidated' = invalidated \o [i \in DOMAIN QueryKeys |->
                                      [call |-> c, queryKey |-> QueryKeys[i]]]

\* mutate with the invalidation moved ahead of the insert
mutate_InvalidatesFirst(c, fetch) ==
    LET p == calls[c].page IN
    /\ isLoading' = [isLoading EXCEPT ![p] = TRUE]
    /\ currentMutation' = [currentMutation EXCEPT ![p] = c]
    /\ calls' = [calls EXCEPT ![c] =
         IF user[p] = NoUser
         THEN [@ EXCEPT !.fetch = fetch, !.pc = "error"]
         ELSE [@ EXCEPT !.fetch = fetch, !.pc = "inserting", !.insert = "issued"]]
    /\ Invalidate(c)
    /\ UNCHANGED <<user, bookings>>

\* createBooking.mutate(...) at line 177 and mutationFn up to its await
\* (lines 98-110), after the fetch of call c has answered as `fetch`
mutate(c, fetch) ==
    LET p == calls[c].page IN
    /\ isLoading' = [isLoading EXCEPT ![p] = TRUE]
    /\ currentMutation' = [currentMutation EXCEPT ![p] = c]
    /\ calls' = [calls EXCEPT ![c] =
         IF user[p] = NoUser
         THEN [@ EXCEPT !.fetch = fetch, !.pc = "error"]
         ELSE [@ EXCEPT !.fetch = fetch, !.pc = "inserting", !.insert = "issued"]]
    /\ UNCHANGED <<user, bookings, invalidated>>

\* the existing-bookings fetch answers with rows (lines 161-177)
FetchBookingsOk(c) ==
    /\ calls[c].pc = "checking"
    /\ IF Len(existingBookings(calls[c].serviceId, calls[c].customerId)) > 0
       THEN /\ calls' = [calls EXCEPT ![c] =
                  [@ EXCEPT !.fetch = "rows", !.pc = "done",
                            !.outcome = "AlreadyBooked"]]
            /\ UNCHANGED <<user, bookings, isLoading, currentMutation, invalidated>>
       ELSE mutate(c, "empty")
    /\ UNCHANGED <<storeListVars, listVars>>

\* the fetch resolves with { data: null, error }: error is not destructured and
\* `existingBookings && ...` is false, so line 177 runs
FetchBookingsError(c) ==
    /\ calls[c].pc = "checking"
    /\ mutate(c, "error")
    /\ UNCHANGED <<storeListVars, listVars>>

\* the awaited fetch rejects: caught at line 178 and logged
FetchBookingsThrow(c) ==
    /\ calls[c].pc = "checking"
    /\ calls' = [calls EXCEPT ![c] =
          [@ EXCEPT !.fetch = "threw", !.pc = "done", !.outcome = "Logged"]]
    /\ UNCHANGED <<user, bookings, isLoading, currentMutation, invalidated>>
    /\ UNCHANGED <<storeListVars, listVars>>

\* the row with customer_id and provider_id taken from each other's value
BookingDraft_Swapped(c) ==
    [service_id |-> calls[c].serviceId,
     customer_id |-> calls[c].providerId,
     provider_id |-> user[calls[c].page],
     status |-> "pending",
     by |-> c]

\* the row of lines 103-109
BookingDraft(c) ==
    [service_id |-> calls[c].serviceId,
     customer_id |-> user[calls[c].page],
     provider_id |-> calls[c].providerId,
     status |-> "pending",
     by |-> c]

\* the store inserts the row and answers with it: mutationFn returns data
InsertBookingOk(c) ==
    /\ calls[c].pc = "inserting"
    /\ bookings' = Append(bookings, BookingDraft(c))
    /\ calls' = [calls EXCEPT ![c] = [@ EXCEPT !.insert = "ok", !.pc = "success"]]
    /\ UNCHANGED <<user, isLoading, currentMutation, invalidated>>
    /\ UNCHANGED <<storeListVars, listVars>>

\* the insert fails: `if (error) throw error`, or the awaited insert rejects
InsertBookingFail(c) ==
    /\ calls[c].pc = "inserting"
    /\ calls' = [calls EXCEPT ![c] = [@ EXCEPT !.insert = "error", !.pc = "error"]]
    /\ UNCHANGED <<user, bookings, isLoading, currentMutation, invalidated>>
    /\ UNCHANGED <<storeListVars, listVars>>

\* the mutation of call c has settled: isLoading follows the observed mutation
Settled(c) ==
    LET p == calls[c].page IN
    /\ isLoading' = [isLoading EXCEPT ![p] = IF currentMutation[p] = c THEN FALSE ELSE @]
    /\ currentMutation' = [currentMutation EXCEPT ![p] = IF @ = c THEN 0 ELSE @]

\* onSuccess with the toast alone
onSuccess_NoInvalidate(c) ==
    /\ calls[c].pc = "success"
    /\ calls' = [calls EXCEPT ![c] = [@ EXCEPT !.pc = "done", !.outcome = "Booked"]]
    /\ Settled(c)
    /\ UNCHANGED <<user, bookings, invalidated>>
    /\ UNCHANGED <<storeListVars, listVars>>

\* lines 115-123
onSuccess(c) ==
    /\ calls[c].pc = "success"
    /\ Invalidate(c)
    /\ calls' = [calls EXCEPT ![c] = [@ EXCEPT !.pc = "done", !.outcome = "Booked"]]
    /\ Settled(c)
    /\ UNCHANGED <<user, bookings>>
    /\ UNCHANGED <<storeListVars, listVars>>

\* onError taking the success path as well
onError_Invalidates(c) ==
    /\ calls[c].pc = "error"
    /\ Invalidate(c)
    /\ calls' = [calls EXCEPT ![c] = [@ EXCEPT !.pc = "done", !.outcome = "BookingFailed"]]
    /\ Settled(c)
    /\ UNCHANGED <<user, bookings>>
    /\ UNCHANGED <<storeListVars, listVars>>

\* lines 124-131
onError(c) ==
    /\ calls[c].pc = "error"
    /\ calls' = [calls EXCEPT ![c] = [@ EXCEPT !.pc = "done", !.outcome = "BookingFailed"]]
    /\ Settled(c)
    /\ UNCHANGED <<user, bookings, invalidated>>
    /\ UNCHANGED <<storeListVars, listVars>>

\* the Book Now button of a listed service (lines 264-270)
BookNowDisabled(p) == isLoading[p] \/ user[p] = NoUser

BookNowClick(p, i) ==
    /\ selectedCategory # Null
    /\ ~servicesLoading
    /\ i \in DOMAIN services
    /\ ~BookNowDisabled(p)
    /\ handleBookService(p, services[i].id, services[i].provider_id, "button")
    /\ UNCHANGED <<storeListVars, listVars>>

\* handleBookService called with arguments of the caller's choosing
requestBooking(p, serviceId, providerId) ==
    /\ handleBookService(p, serviceId, providerId, "direct")
    /\ UNCHANGED <<storeListVars, listVars>>

\* the provider-side workflow moves a booking's status on
NextStatuses(status) ==
    CASE status = "pending" -> {"accepted", "rejected"}
      [] status = "accepted" -> {"completed"}
      [] OTHER -> {}

StatusChange(i, status) ==
    /\ i \in DOMAIN bookings
    /\ status \in NextStatuses(bookings[i].status)
    /\ bookings' = [bookings EXCEPT ![i].status = status]
    /\ UNCHANGED <<user, calls, isLoading, currentMutation, invalidated>>
    /\ UNCHANGED <<storeListVars, listVars>>

-----------------------------------------------------------------------------
(* Store contents.                                                          *)

FullNames == [u1 |-> "Asha", u2 |-> "Ravi"]
Profile(id) == [id |-> id, full_name |-> IF id = "u1" THEN FullNames.u1 ELSE FullNames.u2]

\* profiles tables: any profiles, each id at most once, in any order
ProfileTables ==
    {t \in UNION {[1..n -> {Profile(id) : id \in ProfileIds}] :
                     n \in 0..Cardinality(ProfileIds)} :
        \A i, j \in DOMAIN t : t[i].id = t[j].id => i = j}

\* category and city values as providers have stored them
StoredCategories == {Lower(Cleaning), PetCare}
StoredCities == {Pune, Lower(Pune)}

ServiceFields ==
    [category : StoredCategories, city : StoredCities,
     provider_id : ProfileIds, is_active : BOOLEAN]

\* services tables of up to MaxServices rows; a row's id is its place
ServiceTables ==
    {[i \in DOMAIN f |->
         [id |-> i, category |-> f[i].category, city |-> f[i].city,
          provider_id |-> f[i].provider_id, is_active |-> f[i].is_active]] :
       f \in UNION {[1..n -> ServiceFields] : n \in 0..MaxServices}}

\* the store behind the booking runs: one Cleaning service per profile
BookableServices ==
    <<[id |-> 1, category |-> Cleaning, city |-> Pune,
       provider_id |-> "u1", is_active |-> TRUE],
      [id |-> 2, category |-> Lower(Cleaning), city |-> Pune,
       provider_id |-> "u2", is_active |-> TRUE]>>

-----------------------------------------------------------------------------
(* Specifications.                                                          *)

BookingIdle ==
    /\ bookings = <<>>
    /\ calls = <<>>
    /\ isLoading = [p \in Pages |-> FALSE]
    /\ currentMutation = [p \in Pages |-> 0]
    /\ invalidated = <<>>

\* Who is logged in on the two pages, up to renaming pages and profiles:
\* one customer in two tabs, two customers, one tab logged out, both logged out
UserAssignments ==
    {[p \in Pages |-> "u1"],
     [p \in Pages |-> IF p = 1 THEN "u1" ELSE "u2"],
     [p \in Pages |-> IF p = 1 THEN "u1" ELSE NoUser],
     [p \in Pages |-> NoUser]}

\* Booking runs: pages whose Cleaning listing has loaded, each with its user
Init ==
    /\ user \in UserAssignments
    /\ BookingIdle
    /\ servicesTable = BookableServices
    /\ profilesTable = <<Profile("u1"), Profile("u2")>>
    /\ selectedCategory = Cleaning
    /\ selectedCity = Null
    /\ query = [StartQuery(Cleaning, Null) EXCEPT
                   !.pc = "done",
                   !.servicesData = fetchServices(Cleaning, Null),
                   !.providersFetches = 1]
    /\ services = servicesWithProviders(fetchServices(Cleaning, Null),
                                        fetchProviders(ProfileIds))
    /\ servicesLoading = FALSE

Next ==
    \/ \E p \in Pages, serviceId \in ServiceIds, providerId \in ProfileIds :
          requestBooking(p, serviceId, providerId)
    \/ \E c \in DOMAIN calls : FetchBookingsOk(c)
    \/ \E c \in DOMAIN calls : FetchBookingsError(c)
    \/ \E c \in DOMAIN calls : FetchBookingsThrow(c)
    \/ \E c \in DOMAIN calls : InsertBookingOk(c)
    \/ \E c \in DOMAIN calls : InsertBookingFail(c)
    \/ \E c \in DOMAIN calls : onSuccess(c)
    \/ \E c \in DOMAIN calls : onError(c)
    \/ \E i \in DOMAIN bookings, status \in {"accepted", "rejected", "completed"} :
          StatusChange(i, status)

Spec == Init /\ [][Next]_vars

\* Booking runs of the page alone (no status is moved on meanwhile), in which
\* a mutation whose mutationFn has resolved gets its success callback run
FairNext ==
    \/ \E p \in Pages, serviceId \in ServiceIds, providerId \in ProfileIds :
          requestBooking(p, serviceId, providerId)
    \/ \E c \in DOMAIN calls : FetchBookingsOk(c)
    \/ \E c \in DOMAIN calls : FetchBookingsError(c)
    \/ \E c \in DOMAIN calls : FetchBookingsThrow(c)
    \/ \E c \in DOMAIN calls : InsertBookingOk(c)
    \/ \E c \in DOMAIN calls : InsertBookingFail(c)
    \/ \E c \in DOMAIN calls : onSuccess(c)
    \/ \E c \in DOMAIN calls : onError(c)

FairSpec ==
    /\ Init
    /\ [][FairNext]_vars
    /\ \A c \in 1..MaxCalls : WF_vars(c \in DOMAIN calls /\ onSuccess(c))

\* Booking runs in which every request comes from a Book Now button
ButtonNext ==
    \/ \E p \in Pages : \E i \in DOMAIN services : BookNowClick(p, i)
    \/ \E c \in DOMAIN calls : FetchBookingsOk(c)
    \/ \E c \in DOMAIN calls : FetchBookingsError(c)
    \/ \E c \in DOMAIN calls : FetchBookingsThrow(c)
    \/ \E c \in DOMAIN calls : InsertBookingOk(c)
    \/ \E c \in DOMAIN calls : InsertBookingFail(c)
    \/ \E c \in DOMAIN calls : onSuccess(c)
    \/ \E c \in DOMAIN calls : onError(c)
    \/ \E i \in DOMAIN bookings, status \in {"accepted", "rejected", "completed"} :
          StatusChange(i, status)

ButtonSpec == Init /\ [][ButtonNext]_vars

\* Listing runs: a freshly mounted page over any store contents
ListingInit ==
    /\ user = [p \in Pages |-> NoUser]
    /\ BookingIdle
    /\ servicesTable \in ServiceTables
    /\ profilesTable \in ProfileTables
    /\ selectedCategory = Null
    /\ selectedCity = Null
    /\ query = StartQuery(Null, Null)
    /\ services = <<>>
    /\ servicesLoading = TRUE

ListingNext ==
    \/ \E categoryName \in categories : handleCategoryClick(categoryName)
    \/ \E city \in cities : setSelectedCity(city)
    \/ BackToCategories
    \/ FetchServicesOk
    \/ FetchServicesFail
    \/ FetchProvidersOk
    \/ FetchProvidersFail

ListingSpec == ListingInit /\ [][ListingNext]_vars

-----------------------------------------------------------------------------
(* Booking properties, checked under Spec.                                  *)

BookingsBy(c) == {i \in DOMAIN bookings : bookings[i].by = c}
InvalidationsBy(c) == {k \in DOMAIN invalidated : invalidated[k].call = c}

\* C1 (invariant I1): in every reachable state, each (serviceId, customerId)
\* pair has at most one booking whose status is pending or accepted.
I1_AtMostOneActive ==
    \A serviceId \in ServiceIds, customerId \in ProfileIds :
        Len(existingBookings(serviceId, customerId)) <= 1

\* C2 (no self-booking): a request whose customer is the provider is rejected
\* with SelfBooking without asking anything of the store, and no booking
\* created by a request has customer_id equal to provider_id.
NoSelfBooking ==
    /\ \A c \in DOMAIN calls :
          calls[c].customerId = calls[c].providerId =>
              /\ calls[c].pc = "done"
              /\ calls[c].outcome = "SelfBooking"
              /\ calls[c].fetch = "none"
              /\ calls[c].insert = "none"
    /\ \A i \in DOMAIN bookings :
          bookings[i].customer_id # bookings[i].provider_id

\* a customer asked to book their own service, after another booking went through
SelfBookingRejected ==
    /\ bookings # <<>>
    /\ \E c \in DOMAIN calls :
          /\ calls[c].customerId = calls[c].providerId
          /\ calls[c].outcome = "SelfBooking"

\* C3 (duplicate prevention): whenever the existing-bookings check of a request
\* is answered while the store holds a pending or accepted booking of the
\* request's (serviceId, customerId), the request is rejected with
\* AlreadyBooked, issues no insert, and the bookings are unchanged.
DuplicateRejected ==
    [][\A c \in DOMAIN calls :
          ( /\ calls[c].pc = "checking"
            /\ calls'[c].pc # "checking"
            /\ Len(existingBookings(calls[c].serviceId, calls[c].customerId)) > 0 )
          => /\ calls'[c].outcome = "AlreadyBooked"
             /\ calls'[c].insert = "none"
             /\ bookings' = bookings]_vars

\* C4 (unauthenticated rejection): a request made with no user is rejected with
\* Unauthenticated, and neither the existing-bookings fetch nor the insert is
\* issued for it.
UnauthenticatedRejected ==
    \A c \in DOMAIN calls :
        calls[c].customerId = NoUser =>
            /\ calls[c].pc = "done"
            /\ calls[c].outcome = "Unauthenticated"
            /\ calls[c].fetch = "none"
            /\ calls[c].insert = "none"
            /\ BookingsBy(c) = {}

\* a logged-out page asked to book while the store already held a booking
UnauthenticatedSeen ==
    /\ bookings # <<>>
    /\ \E c \in DOMAIN calls :
          /\ calls[c].customerId = NoUser
          /\ calls[c].outcome = "Unauthenticated"

\* C6 (no silent swallowing in the guard): a failed existing-bookings fetch
\* reaches the caller as a fetch-failed error and is followed by no insert; an
\* insert is issued only after a fetch that succeeded and returned no rows.
GuardFetchFailurePropagates ==
    \A c \in DOMAIN calls :
        /\ calls[c].fetch \in {"error", "threw"} =>
              /\ calls[c].insert = "none"
              /\ calls[c].pc = "done"
              /\ calls[c].outcome = "FetchFailed"
        /\ calls[c].insert # "none" => calls[c].fetch = "empty"

\* C7 (no speculative invalidation): every invalidation made so far belongs to
\* a request whose insert the store has already acknowledged.
NoSpeculativeInvalidation ==
    \A k \in DOMAIN invalidated :
        calls[invalidated[k].call].insert = "ok"

\* one request has invalidated after its acknowledgment while another has
\* been rejected by the guard or has failed to insert
InvalidatedAfterAck ==
    /\ \E c \in DOMAIN calls : calls[c].insert = "ok" /\ InvalidationsBy(c) # {}
    /\ \E c \in DOMAIN calls :
          /\ calls[c].pc = "done"
          /\ calls[c].outcome \in {"AlreadyBooked", "BookingFailed"}

\* C8 (insertion failure): a request whose insert failed ends as BookingFailed,
\* has added no booking, and has made no invalidation.
InsertFailureSurfaced ==
    \A c \in DOMAIN calls :
        calls[c].insert = "error" =>
            /\ calls[c].pc \in {"error", "done"}
            /\ calls[c].pc = "done" => calls[c].outcome = "BookingFailed"
            /\ BookingsBy(c) = {}
            /\ InvalidationsBy(c) = {}

\* an insert has failed and its request has run onError
InsertFailureSeen ==
    \E c \in DOMAIN calls :
        /\ calls[c].insert = "error"
        /\ calls[c].pc = "done"
        /\ calls[c].outcome = "BookingFailed"

-----------------------------------------------------------------------------
(* Listing properties, checked under ListingSpec.                           *)

\* C5 (fetch failures are not collapsed): when the services fetch or the
\* profiles fetch of a query failed, the query does not yield the empty
\* sequence that it yields when no service matches.
FetchFailureDistinguishable ==
    (query.pc = "done" /\ query.failed # "none") => services # <<>>

\* the services of the table that the chosen filter is to select
WantedService(row) ==
    /\ row.is_active = TRUE
    /\ selectedCategory # Null => Lower(row.category) = Lower(selectedCategory)
    /\ selectedCity # Null => row.city = selectedCity

WantedIds == {servicesTable[i].id : i \in {j \in DOMAIN servicesTable :
                                               WantedService(servicesTable[j])}}

\* C9 (filter correctness): a returned listing holds exactly the active
\* services whose category equals the chosen category without regard to case
\* (when one is chosen) and whose city equals the chosen city (when one is
\* chosen).
FilterCorrect ==
    query.pc = "done" => {services[i].id : i \in DOMAIN services} = WantedIds

\* the profile the join is to give a service
WantedProvider(providerId) ==
    IF \E k \in DOMAIN profilesTable : profilesTable[k].id = providerId
    THEN profilesTable[CHOOSE k \in DOMAIN profilesTable :
                           profilesTable[k].id = providerId]
    ELSE Undefined

\* C10 (provider join totality): a returned listing has one view per fetched
\* service, in the order of the fetch, each with the profile whose id is the
\* service's provider_id, or undefined exactly when the store has none.
JoinTotal ==
    query.pc = "done" =>
        /\ Len(services) = Len(query.servicesData)
        /\ \A i \in DOMAIN services :
              /\ services[i].id = query.servicesData[i].id
              /\ services[i].provider = WantedProvider(services[i].provider_id)

-----------------------------------------------------------------------------
(* View-state properties, checked under ListingSpec.                        *)

\* C11 (filter reset): every selection of a category B, whatever the category
\* and city before it, ends in the view state (category B, city unset) with
\* the query restarted for that key: the state that selecting B from the
\* unfiltered state gives.
CategoryClickResetsCity ==
    [][(selectedCategory' # selectedCategory /\ selectedCategory' # Null)
          => /\ selectedCity' = Null
             /\ query' = StartQuery(selectedCategory', Null)]_vars

\* a category has just been selected and no city is set
CategoryJustSelected ==
    /\ selectedCategory = PetCare
    /\ selectedCity = Null
    /\ query = StartQuery(PetCare, Null)
    /\ servicesLoading

-----------------------------------------------------------------------------
(* Properties of the booking path from the button, checked under ButtonSpec. *)

\* requests of page p between the start of their existing-bookings check and
\* the acknowledgment or failure of their insert
InFlight(p) ==
    {c \in DOMAIN calls : calls[c].page = p /\ calls[c].pc \in {"checking", "inserting"}}

\* C12 (single-flight): on each page at most one booking request is in flight
\* at any time, from the start of its check to the answer to its insert.
SingleFlight ==
    \A p \in Pages : Cardinality(InFlight(p)) <= 1

-----------------------------------------------------------------------------
(* Further booking properties, checked under Spec.                          *)

\* C13: a step of a booking request leaves the bookings as they are or appends
\* one booking, the first of its request, with status pending, the customer
\* who made the request, and the serviceId and providerId the request was
\* called with; it changes and removes no booking.
InsertsOnlyItsPending ==
    [][calls' # calls =>
          \/ bookings' = bookings
          \/ \E c \in DOMAIN calls :
                /\ calls[c].pc = "inserting"
                /\ BookingsBy(c) = {}
                /\ bookings' = Append(bookings,
                       [service_id |-> calls[c].serviceId,
                        customer_id |-> calls[c].customerId,
                        provider_id |-> calls[c].providerId,
                        status |-> "pending",
                        by |-> c])]_vars

\* a request has added its booking behind one that was already there
SecondBookingAdded ==
    /\ Len(bookings) = 2
    /\ bookings[1].status # "pending"
    /\ bookings[2].status = "pending"
    /\ calls[bookings[2].by].insert = "ok"

\* C14 (invalidation liveness), checked under FairSpec: every request whose
\* insert the store has acknowledged eventually invalidates both booking lists.
AckLeadsToInvalidation ==
    \A c \in 1..MaxCalls :
        (c \in DOMAIN calls /\ calls[c].insert = "ok")
            ~> (c \in DOMAIN calls
                /\ {invalidated[k].queryKey : k \in InvalidationsBy(c)}
                      = {QueryKeys[i] : i \in DOMAIN QueryKeys})

\* a request has ended as Booked with both invalidations made
BookedAndInvalidated ==
    \E c \in DOMAIN calls :
        /\ calls[c].outcome = "Booked"
        /\ Cardinality(InvalidationsBy(c)) = Len(QueryKeys)

\* the store holds a pending or accepted booking of the pair
HasActiveBooking(serviceId, customerId) ==
    \E i \in DOMAIN bookings :
        /\ bookings[i].service_id = serviceId
        /\ bookings[i].customer_id = customerId
        /\ bookings[i].status \in {"pending", "accepted"}

\* the booking a request is to add
PendingBookingOf(c) ==
    [service_id |-> calls[c].serviceId, customer_id |-> calls[c].customerId,
     provider_id |-> calls[c].providerId, status |-> "pending", by |-> c]

-----------------------------------------------------------------------------
(* Further listing properties, checked under ListingSpec.                   *)

\* C16: the profiles fetch is issued only after a services fetch that
\* succeeded and returned at least one row, and at most once per query; a
\* query whose services fetch returned no row has returned the empty sequence
\* without a profiles fetch.
ProvidersFetchedOnlyForRows ==
    /\ query.providersFetches > 0 =>
          /\ query.servicesData # <<>>
          /\ query.servicesData = fetchServices(query.category, query.city)
          /\ query.failed # "services"
          /\ query.providersFetches = 1
    /\ (query.pc # "fetchServices" /\ query.failed # "services"
           /\ fetchServices(query.category, query.city) = <<>>) =>
          /\ query.pc = "done"
          /\ services = <<>>
          /\ query.providersFetches = 0

\* a services fetch over a table with rows returned none, and the query has
\* returned without a profiles fetch
EmptyFetchReturned ==
    /\ servicesTable # <<>>
    /\ selectedCategory # Null
    /\ query.pc = "done"
    /\ query.failed = "none"
    /\ query.providersFetches = 0
    /\ services = <<>>

\* C17: in every reachable view state the city filter is set only if a
\* category is set, so no query runs with a city and no category.
CityOnlyWithCategory ==
    /\ selectedCity # Null => selectedCategory # Null
    /\ query.city # Null => query.category # Null

====
